---------------------------- MODULE Spec2Model ----------------------------
(***************************************************************************)
(* Model of src/app.js: an Express service with one route,                 *)
(* POST /api/responses, that validates {nickname, story}, builds a record  *)
(* {id, created_at, nickname, story} and appends it as one row to a Google *)
(* Sheet through a lazily constructed, process-wide cached client.         *)
(*                                                                         *)
(* Node runs the handler's synchronous part (up to the remote call) in one *)
(* step of the event loop and its continuation (after the await) in        *)
(* another; handlers of different requests interleave between the two.     *)
(***************************************************************************)
EXTENDS Integers, Sequences, FiniteSets, TLC

(***************************************************************************)
(* Bounds of the model.                                                    *)
(***************************************************************************)
\* Number of POST /api/responses requests in a run.
MaxReqs == 2
\* Number of milliseconds the clock may advance in a run.
MaxTicks == 1

Reqs == 1..MaxReqs

(***************************************************************************)
(* JavaScript values.  A value is a record [t, s, n]: its type, its text   *)
(* (of a string, a boolean, an Error's message) and, of a number, its      *)
(* value: the number JSON.parse gives, whatever the spelling of the        *)
(* literal (0, 0.0, 0e0 and -0.0 are all the number 0).                    *)
(***************************************************************************)
Undefined == [t |-> "undefined", s |-> "", n |-> 0]
Null == [t |-> "null", s |-> "", n |-> 0]
Str(x) == [t |-> "string", s |-> x, n |-> 0]
Num(x) == [t |-> "number", s |-> "", n |-> x]
Bool(x) == [t |-> "boolean", s |-> x, n |-> 0]
\* An Error object, with its message.
ErrorObj(m) == [t |-> "error", s |-> m, n |-> 0]

\* ToBoolean(v), as `!v` in line 112 applies it.
Truthy(v) ==
    CASE v.t = "undefined" -> FALSE
      [] v.t = "null" -> FALSE
      [] v.t = "string" -> v.s # ""
      [] v.t = "number" -> v.n # 0
      [] v.t = "boolean" -> v.s = "true"
      [] OTHER -> TRUE

(***************************************************************************)
(* A JavaScript object is the sequence of its <<key, value>> pairs, in     *)
(* insertion order (the order JSON.parse and an object literal give).      *)
(***************************************************************************)
RECURSIVE Get(_, _)
\* obj[key]: the value of the last pair with that key, undefined if none.
Get(obj, key) ==
    IF obj = <<>> THEN Undefined
    ELSE IF obj[Len(obj)][1] = key THEN obj[Len(obj)][2]
    ELSE Get(SubSeq(obj, 1, Len(obj) - 1), key)

Keys(obj) == {obj[i][1] : i \in 1..Len(obj)}


(***************************************************************************)
(* The clock.  TLC's integers are 32 bits wide and Date.now() is not, so a *)
(* time is kept as whole seconds since the epoch and the milliseconds      *)
(* within the second: Date.now() = sec * 1000 + ms.                        *)
(***************************************************************************)
\* The clock one millisecond before a second ends, 2023-11-14T22:13:20.999Z.
StartTime == [sec |-> 1700000000, ms |-> 999]

\* The time t, k milliseconds later.
Later(t, k) ==
    [sec |-> t.sec + ((t.ms + k) \div 1000), ms |-> (t.ms + k) % 1000]

\* The values the clock takes in a run.
ClockValues == {Later(StartTime, k) : k \in 0..MaxTicks}

Digit(d) == CASE d = 0 -> "0" [] d = 1 -> "1" [] d = 2 -> "2" [] d = 3 -> "3"
              [] d = 4 -> "4" [] d = 5 -> "5" [] d = 6 -> "6" [] d = 7 -> "7"
              [] d = 8 -> "8" [] d = 9 -> "9"

RECURSIVE DecStr(_)
\* Number.prototype.toString() of an integer n >= 0: its decimal digits.
DecStr(n) == IF n < 10 THEN Digit(n) ELSE DecStr(n \div 10) \o Digit(n % 10)

\* n in exactly w digits, zero padded (n < 10^w).
RECURSIVE Pad(_, _)
Pad(n, w) == IF w = 0 THEN "" ELSE Pad(n \div 10, w - 1) \o Digit(n % 10)

\* Date.now().toString() at time t: the digits of sec * 1000 + ms.
DateNowString(t) ==
    IF t.sec = 0 THEN DecStr(t.ms) ELSE DecStr(t.sec) \o Pad(t.ms, 3)

\* The offset of the time zone Asia/Taipei from UTC, in seconds (no DST).
TaipeiOffset == 8 * 3600

\* The civil date [y, m, d] of the day `days` days after 1970-01-01.
CivilFromDays(days) ==
    LET z == days + 719468
        era == z \div 146097
        doe == z - era * 146097
        yoe == (doe - (doe \div 1460) + (doe \div 36524) - (doe \div 146096)) \div 365
        doy == doe - (365 * yoe + (yoe \div 4) - (yoe \div 100))
        mp == (5 * doy + 2) \div 153
        d == doy - ((153 * mp + 2) \div 5) + 1
        m == IF mp < 10 THEN mp + 3 ELSE mp - 9
        y == yoe + era * 400 + (IF m <= 2 THEN 1 ELSE 0)
    IN  [y |-> y, m |-> m, d |-> d]

\* The zh-TW day periods, written as the escapes of their characters.
DayPeriodAM == "\\u4e0a\\u5348"
DayPeriodPM == "\\u4e0b\\u5348"

\* What stands between the date and the time: U+2009 THIN SPACE, as the
\* CLDR data of the build's ICU has it (toLocaleString's output is
\* implementation defined; older ICU data had U+0020 here).
DateTimeSeparator == "\\u2009"

\* new Date(t).toLocaleString("zh-TW", {timeZone: "Asia/Taipei"}):
\* "y/m/d<sep><period>h:mm:ss", 12-hour clock, month, day and hour unpadded.
LocaleString(t) ==
    LET local == t.sec + TaipeiOffset
        date == CivilFromDays(local \div 86400)
        sod == local % 86400
        h24 == sod \div 3600
        h12 == IF h24 % 12 = 0 THEN 12 ELSE h24 % 12
    IN  DecStr(date.y) \o "/" \o DecStr(date.m) \o "/" \o DecStr(date.d)
        \o DateTimeSeparator
        \o (IF h24 < 12 THEN DayPeriodAM ELSE DayPeriodPM)
        \o DecStr(h12) \o ":" \o Pad((sod \div 60) % 60, 2) \o ":" \o Pad(sod % 60, 2)


(***************************************************************************)
(* Configuration, with no environment variable set.                        *)
(***************************************************************************)
SHEET_ID == "\\u8acb\\u586b\\u5165\\u4f60\\u7684SheetID"
RESPONSE_SHEET_RANGE == "'responses'!A:D"
RESPONSE_COLUMNS == <<"id", "created_at", "nickname", "story">>

(***************************************************************************)
(* What the remote library may throw: an Error with a message, a value     *)
(* that is no Error (a string has no message property), or null.  NoThrow  *)
(* stands for a call that returns.                                         *)
(***************************************************************************)
NoThrow == [t |-> "none", s |-> "", n |-> 0]
Thrown == {ErrorObj("quota exceeded"), Str("boom"), Null}

(***************************************************************************)
(* The request bodies of the model, as express.json() parses them.         *)
(***************************************************************************)
Bodies ==
    { <<>>,
      << <<"nickname", Str("")>>, <<"story", Str("Hello")>> >>,
      << <<"story", Null>>, <<"nickname", Str("Amy")>> >>,
      << <<"nickname", Str("Amy")>>, <<"story", Num(0)>> >>,
      << <<"nickname", Str("Amy")>>, <<"story", Str("Hello")>> >>,
      << <<"id", Str("evil")>>, <<"created_at", Str("never")>>,
         <<"story", Str("Hi")>>, <<"nickname", Str("Bob")>> >> }

VARIABLES
    now,            \* the clock: [sec, ms]
    cached,         \* getSheetsClient's `cached`: 0 (undefined) or a client
    constructions,  \* how many clients google.sheets() has constructed
    pc,             \* per request: idle, awaiting, done, rejected
    body,           \* per request: req.body
    record,         \* per request: newResponse (<<>> before it is built)
    sheets,         \* per request: appendRow's `sheets` (0 before it is set)
    calls,          \* the remote append calls issued, in order
    rejected,       \* per request: what getSheetsClient threw in appendRow, the
                    \* reason its promise is rejected with (NoThrow: nothing)
    caught,         \* per request: the catch block's `error` (NoThrow: none)
    responses       \* per request: the responses sent on res, in order

vars == <<now, cached, constructions, pc, body, record, sheets, calls, rejected,
          caught, responses>>

(***************************************************************************)
(* getSheetsClient (lines 52-72).                                          *)
(***************************************************************************)
\* Mutant of CacheHit: the check of `cached` is lost, every call constructs.
CacheNeverHit(c) == FALSE

\* `if (cached)`: 0 stands for undefined, the clients are 1, 2, ...
CacheHit(c) == c # 0

\* Whether this call of getSheetsClient throws: only a construction can.
ConstructionThrows(outcome) == ~CacheHit(cached) /\ outcome # NoThrow

\* The client getSheetsClient returns when it does not throw.
ClientReturned == IF CacheHit(cached) THEN cached ELSE constructions + 1

\* getSheetsClient's effect on its closure.
getSheetsClient(outcome) ==
    IF CacheHit(cached) \/ outcome # NoThrow
    THEN UNCHANGED <<cached, constructions>>
    ELSE /\ constructions' = constructions + 1
         /\ cached' = constructions + 1

(***************************************************************************)
(* appendRow (lines 77-95).                                                *)
(***************************************************************************)
\* Mutant of RowOf: the cells follow the payload's own keys (Object.values)
\* instead of the configured columns.
RowOfPayloadOrder(columns, payload) ==
    [i \in 1..Len(payload) |->
        IF payload[i][2] = Undefined \/ payload[i][2] = Null THEN Str("")
        ELSE payload[i][2]]

\* columns.map(...): one cell per column, "" for undefined or null.
RowOf(columns, payload) ==
    [i \in 1..Len(columns) |->
        LET value == Get(payload, columns[i])
        IN  IF value = Undefined \/ value = Null THEN Str("") ELSE value]

\* The argument of sheets.spreadsheets.values.append, and the call's state.
NewCall(r, client, range, columns, payload) ==
    [req |-> r, client |-> client, payload |-> payload,
     spreadsheetId |-> SHEET_ID, range |-> range,
     valueInputOption |-> "USER_ENTERED", insertDataOption |-> "INSERT_ROWS",
     values |-> <<RowOf(columns, payload)>>,
     status |-> "pending"]

\* Mutant of IssueAppend: the call is issued a second time (a retry).
IssueTwice(cs, call) == Append(Append(cs, call), call)

\* The one `await sheets.spreadsheets.values.append(...)` of appendRow.
IssueAppend(cs, call) == Append(cs, call)

\* appendRow up to its await, for request r (0: a direct call).
appendRow(r, range, columns, payload, outcome) ==
    /\ getSheetsClient(outcome)
    /\ calls' = IF ConstructionThrows(outcome) THEN calls
                ELSE IssueAppend(calls, NewCall(r, ClientReturned, range, columns, payload))

(***************************************************************************)
(* The handler of POST /api/responses (lines 107-142).                     *)
(***************************************************************************)
\* Mutant of Validate: only the nickname is checked.
ValidateNicknameOnly(b) == Truthy(Get(b, "nickname"))

\* `!nickname || !story` is false (line 112).
Validate(b) == Truthy(Get(b, "nickname")) /\ Truthy(Get(b, "story"))

\* Mutant of newResponse: an id or created_at of the body is taken over.
NewResponseFromBody(b, t1, t2) ==
    << <<"id", IF "id" \in Keys(b) THEN Get(b, "id") ELSE Str(DateNowString(t1))>>,
       <<"created_at", IF "created_at" \in Keys(b) THEN Get(b, "created_at")
                       ELSE Str(LocaleString(t2))>>,
       <<"nickname", Get(b, "nickname")>>,
       <<"story", Get(b, "story")>> >>

\* The object newResponse (lines 118-123); t1 and t2 are the two readings of the clock.
newResponse(b, t1, t2) ==
    << <<"id", Str(DateNowString(t1))>>,
       <<"created_at", Str(LocaleString(t2))>>,
       <<"nickname", Get(b, "nickname")>>,
       <<"story", Get(b, "story")>> >>

\* A response: res.status(status).json({...}); JSON.stringify drops a key
\* whose value is undefined, `fields` are the keys sent.
Response400 ==
    [status |-> 400, fields |-> {"message"}, message |-> "\\u8acb\\u586b\\u5beb\\u66b1\\u7a31\\u8207\\u6545\\u4e8b\\u5167\\u5bb9",
     data |-> <<>>, error |-> Undefined]

Response201(rec) ==
    [status |-> 201, fields |-> {"message", "data"}, message |-> "\\u6545\\u4e8b\\u5df2\\u6210\\u529f\\u9001\\u51fa",
     data |-> rec, error |-> Undefined]

\* error.message of a thrown value that is not null or undefined.
MessageOf(e) == IF e.t = "error" THEN Str(e.s) ELSE Undefined

Response500(e) ==
    [status |-> 500,
     fields |-> {"message"} \cup (IF MessageOf(e) = Undefined THEN {} ELSE {"error"}),
     message |-> "\\u4f3a\\u670d\\u5668\\u932f\\u8aa4\\uff0c\\u7121\\u6cd5\\u5132\\u5b58\\u56de\\u61c9", data |-> <<>>, error |-> MessageOf(e)]

\* The catch block (lines 135-141): the responses it sends.  Reading
\* error.message of null or undefined throws a TypeError out of the handler,
\* which then sends nothing.
Catch(e) == IF e.t \in {"null", "undefined"} THEN <<>> ELSE <<Response500(e)>>

\* Mutant of Continue: the success response is sent whatever appendRow did.
ContinueAlways201(rec, thrown) == <<Response201(rec)>>

\* The handler from the call of appendRow on (lines 126-141): the responses
\* it sends when appendRow returns (NoThrow) or throws.
Continue(rec, thrown) ==
    IF thrown = NoThrow THEN <<Response201(rec)>> ELSE Catch(thrown)

\* The handler's state once it has run to its end with these responses.
Finished(rs) == IF rs = <<>> THEN "rejected" ELSE "done"

\* Mutant of CanReceive: a request waits until no append call is pending.
CanReceiveSerialized(r) ==
    /\ pc[r] = "idle"
    /\ \A q \in Reqs : q < r => pc[q] # "idle"
    /\ \A q \in Reqs : pc[q] # "awaiting"

\* Express runs the handler of each request as it arrives, whatever the other
\* requests are doing; request r is the r-th to arrive.
CanReceive(r) == pc[r] = "idle" /\ \A q \in Reqs : q < r => pc[q] # "idle"

Init ==
    /\ now = StartTime
    /\ cached = 0
    /\ constructions = 0
    /\ pc = [r \in Reqs |-> "idle"]
    /\ body = [r \in Reqs |-> <<>>]
    /\ record = [r \in Reqs |-> <<>>]
    /\ sheets = [r \in Reqs |-> 0]
    /\ calls = <<>>
    /\ rejected = [r \in Reqs |-> NoThrow]
    /\ caught = [r \in Reqs |-> NoThrow]
    /\ responses = [r \in Reqs |-> <<>>]

\* A millisecond passes.
Tick ==
    /\ Later(now, 1) \in ClockValues
    /\ now' = Later(now, 1)
    /\ UNCHANGED <<cached, constructions, pc, body, record, sheets, calls, rejected,
                   caught, responses>>

\* Request r arrives with body b and fails validation (lines 109-114).
PostInvalid(r, b) ==
    /\ CanReceive(r)
    /\ ~Validate(b)
    /\ body' = [body EXCEPT ![r] = b]
    /\ responses' = [responses EXCEPT ![r] = <<Response400>>]
    /\ pc' = [pc EXCEPT ![r] = "done"]
    /\ UNCHANGED <<now, cached, constructions, record, sheets, calls, rejected,
                   caught>>

\* Request r arrives with body b and passes validation: the handler builds the
\* record and calls appendRow, which obtains the client (its construction
\* ends as `outcome`) and issues the remote call; the handler then gives up
\* control at `await appendRow(...)` (lines 109-126, 77-94).  A throw of
\* getSheetsClient only rejects the promise of the async appendRow: the catch
\* block runs in a later step.  t2 is the clock's second reading.
PostValid(r, b, t2, outcome) ==
    /\ CanReceive(r)
    /\ Validate(b)
    /\ t2 \in {now, Later(now, 1)} \cap ClockValues
    /\ outcome \in (IF CacheHit(cached) THEN {NoThrow} ELSE {NoThrow} \cup Thrown)
    /\ now' = t2
    /\ body' = [body EXCEPT ![r] = b]
    /\ \E built \in {newResponse(b, now, t2)} :
          /\ record' = [record EXCEPT ![r] = built]
          /\ appendRow(r, RESPONSE_SHEET_RANGE, RESPONSE_COLUMNS, built, outcome)
    /\ IF ConstructionThrows(outcome)
       THEN /\ rejected' = [rejected EXCEPT ![r] = outcome]
            /\ UNCHANGED sheets
       ELSE /\ sheets' = [sheets EXCEPT ![r] = ClientReturned]
            /\ UNCHANGED rejected
    /\ pc' = [pc EXCEPT ![r] = "awaiting"]
    /\ UNCHANGED <<caught, responses>>

\* The handler of request r goes on after its await of an appendRow that
\* getSheetsClient's throw has rejected: its catch block runs (lines 126,
\* 135-141).
AppendRowRejected(r) ==
    /\ pc[r] = "awaiting"
    /\ rejected[r] # NoThrow
    /\ caught' = [caught EXCEPT ![r] = rejected[r]]
    /\ responses' = [responses EXCEPT ![r] = responses[r] \o Continue(record[r], rejected[r])]
    /\ pc' = [pc EXCEPT ![r] = Finished(responses[r] \o Continue(record[r], rejected[r]))]
    /\ UNCHANGED <<now, cached, constructions, body, record, sheets, calls, rejected>>

\* The pending calls of request r.
PendingOf(r) == {i \in 1..Len(calls) : calls[i].req = r /\ calls[i].status = "pending"}

\* The remote call of request r returns, and the handler goes on after its
\* await to send 201 (lines 126-133).
AppendResolves(r) ==
    /\ pc[r] = "awaiting"
    /\ \E i \in PendingOf(r) : calls' = [calls EXCEPT ![i].status = "ok"]
    /\ responses' = [responses EXCEPT ![r] = responses[r] \o Continue(record[r], NoThrow)]
    /\ pc' = [pc EXCEPT ![r] = Finished(responses[r] \o Continue(record[r], NoThrow))]
    /\ UNCHANGED <<now, cached, constructions, body, record, sheets, rejected,
                   caught>>

\* The remote call of request r throws e (its promise rejects), and the handler
\* goes on in its catch block (lines 126, 135-141).
AppendRejects(r, e) ==
    /\ pc[r] = "awaiting"
    /\ \E i \in PendingOf(r) :
          calls' = [calls EXCEPT ![i].status = "failed"]
    /\ caught' = [caught EXCEPT ![r] = e]
    /\ responses' = [responses EXCEPT ![r] = responses[r] \o Continue(record[r], e)]
    /\ pc' = [pc EXCEPT ![r] = Finished(responses[r] \o Continue(record[r], e))]
    /\ UNCHANGED <<now, cached, constructions, body, record, sheets, rejected>>

Next ==
    \/ Tick
    \/ \E r \in Reqs, b \in Bodies : PostInvalid(r, b)
    \/ \E r \in Reqs, b \in Bodies, t2 \in ClockValues, outcome \in {NoThrow} \cup Thrown :
          PostValid(r, b, t2, outcome)
    \/ \E r \in Reqs : AppendRowRejected(r)
    \/ \E r \in Reqs : AppendResolves(r)
    \/ \E r \in Reqs, e \in Thrown : AppendRejects(r, e)

Spec == Init /\ [][Next]_vars


(***************************************************************************)
(* appendRow called on its own, on any payload: the specification under    *)
(* which the mapping of a payload to a row is checked.                     *)
(***************************************************************************)
\* A key the payload does not have.
Absent == [t |-> "absent", s |-> "", n |-> 0]

\* The orders in which a payload may list its keys.
KeyOrders ==
    { <<"id", "created_at", "nickname", "story">>,
      <<"story", "extra", "nickname", "created_at", "id">> }

\* What a payload may hold under a key.
CellChoices == {Absent, Null, Num(0), Str("x")}

\* The object listing the keys of `order`, each with the value f gives it.
ObjectOf(order, f) ==
    SelectSeq([i \in 1..Len(order) |-> <<order[i], f[order[i]]>>],
              LAMBDA p : p[2] # Absent)

Payloads ==
    {ObjectOf(order, f) : order \in KeyOrders,
                          f \in [{"id", "created_at", "nickname", "story", "extra"} -> CellChoices]}

\* appendRow(RESPONSE_SHEET_RANGE, RESPONSE_COLUMNS, payload), up to its await.
AppendRowDirect(payload, outcome) ==
    /\ calls = <<>>
    /\ outcome \in {NoThrow} \cup Thrown
    /\ appendRow(0, RESPONSE_SHEET_RANGE, RESPONSE_COLUMNS, payload, outcome)
    /\ UNCHANGED <<now, pc, body, record, sheets, rejected, caught, responses>>

NextRow == \E payload \in Payloads, outcome \in {NoThrow} \cup Thrown :
              AppendRowDirect(payload, outcome)

SpecRow == Init /\ [][NextRow]_vars


(***************************************************************************)
(* The properties.                                                         *)
(***************************************************************************)
\* The remote append calls issued for request r.
CallsOf(r) == {i \in 1..Len(calls) : calls[i].req = r}

\* The handler of request r has run to its end.
Ended(r) == pc[r] \in {"done", "rejected"}

\* The values a missing, null or otherwise falsy field of a JSON body has.
FalsyValues == {Undefined, Null, Str(""), Num(0), Bool("false")}

\* The body lacks a usable nickname or story.
MissingField(b) ==
    \/ "nickname" \notin Keys(b) \/ Get(b, "nickname") \in FalsyValues
    \/ "story" \notin Keys(b) \/ Get(b, "story") \in FalsyValues

\* C1: a request whose nickname or story is missing, null or falsy is answered
\* with 400 and a body of only a message, and no remote append call is ever
\* issued for it, whatever the other requests do.
C1_InvalidIs400WithoutAppend ==
    \A r \in Reqs :
        (pc[r] # "idle" /\ MissingField(body[r])) =>
            /\ Len(responses[r]) = 1
            /\ responses[r][1].status = 400
            /\ responses[r][1].fields = {"message"}
            /\ CallsOf(r) = {}
            /\ sheets[r] = 0

\* C1 witness: a request with a nickname and a falsy story has its 400 while
\* the append call of another request is pending.
C1_Witness ==
    \E r, q \in Reqs :
        /\ Get(body[r], "nickname") = Str("Amy")
        /\ Get(body[r], "story") \in FalsyValues
        /\ Len(responses[r]) = 1 /\ responses[r][1].status = 400
        /\ pc[q] = "awaiting" /\ CallsOf(q) # {}

\* The message text of a thrown value: an Error's message; a value that is
\* no Error carries none.
MessageText(e) == IF e.t = "error" THEN Str(e.s) ELSE Undefined

\* C2 (as claimed): whatever the remote write (or obtaining the client) throws
\* for a validated request, the response is 500, its error field is the
\* thrown value's message text, and no 201 is sent.
C2_AnyThrowIs500WithMessage ==
    \A r \in Reqs :
        caught[r] # NoThrow =>
            /\ Len(responses[r]) = 1
            /\ responses[r][1].status = 500
            /\ responses[r][1].error = MessageText(caught[r])

\* C3: a 201 is sent for a request only once that request's own append call
\* has returned with success; none while the call is pending or has failed.
C3_Created201OnlyAfterAppendOk ==
    \A r \in Reqs : \A k \in 1..Len(responses[r]) :
        responses[r][k].status = 201 =>
            /\ CallsOf(r) # {}
            /\ \A i \in CallsOf(r) : calls[i].status = "ok"
            /\ caught[r] = NoThrow

\* C3 witness: one request has its 201 after its append returned, while the
\* append of another request has failed and got a 500.
C3_Witness ==
    \E r, q \in Reqs :
        /\ Len(responses[r]) = 1 /\ responses[r][1].status = 201
        /\ \E i \in CallsOf(r) : calls[i].status = "ok"
        /\ \E i \in CallsOf(q) : calls[i].status = "failed"
        /\ Len(responses[q]) = 1 /\ responses[q][1].status = 500

\* C4: for a validated request the record handed to appendRow, and returned
\* as data of the 201, has the body's nickname and story, and an id and a
\* created_at that are non-empty strings made from the clock, whatever id or
\* created_at the body carries.
C4_RecordFromBodyAndClock ==
    \A r \in Reqs :
        (pc[r] # "idle" /\ ~MissingField(body[r])) =>
            /\ Get(record[r], "nickname") = Get(body[r], "nickname")
            /\ Get(record[r], "story") = Get(body[r], "story")
            /\ \E t \in ClockValues : Get(record[r], "id") = Str(DateNowString(t))
            /\ \E t \in ClockValues : Get(record[r], "created_at") = Str(LocaleString(t))
            /\ Len(Get(record[r], "id").s) > 0
            /\ Len(Get(record[r], "created_at").s) > 0
            /\ \A i \in CallsOf(r) : calls[i].payload = record[r]
            /\ \A k \in 1..Len(responses[r]) :
                  responses[r][k].status = 201 => responses[r][k].data = record[r]

\* C4 witness: a body that carries its own id and created_at, keys in another
\* order, is answered 201 with the server's id and created_at.
C4_Witness ==
    \E r \in Reqs :
        /\ Get(body[r], "id") = Str("evil")
        /\ Get(body[r], "created_at") = Str("never")
        /\ Len(responses[r]) = 1 /\ responses[r][1].status = 201
        /\ Get(responses[r][1].data, "id") = Str("1700000000999")
        /\ Get(responses[r][1].data, "nickname") = Str("Bob")

\* The cell of column key: the payload's value, "" if it has none or null.
CellOf(payload, key) ==
    IF key \in Keys(payload) /\ Get(payload, key) \notin {Null, Undefined}
    THEN Get(payload, key) ELSE Str("")

\* C5: every row sent to the remote append call is the one row
\* [id, created_at, nickname, story], in that order, an empty string standing
\* for a missing or null value, whatever the order of the payload's keys.
C5_RowInColumnOrder ==
    \A i \in 1..Len(calls) :
        calls[i].values =
            << << CellOf(calls[i].payload, "id"),
                  CellOf(calls[i].payload, "created_at"),
                  CellOf(calls[i].payload, "nickname"),
                  CellOf(calls[i].payload, "story") >> >>

\* C5 witness: a payload that lists story first, lacks id and has a null
\* created_at was sent as <<"", "", 0, "x">>.
C5_Witness ==
    \E i \in 1..Len(calls) :
        /\ Len(calls[i].payload) > 0
        /\ calls[i].payload[1][1] = "story"
        /\ "id" \notin Keys(calls[i].payload)
        /\ Get(calls[i].payload, "created_at") = Null
        /\ calls[i].values[1] = <<Str(""), Str(""), Num(0), Str("x")>>

\* C6: at most one client is ever constructed, and every getSheetsClient that
\* returns gives that one client, which stays the cached one.
C6_ClientConstructedOnce ==
    /\ constructions <= 1
    /\ (cached # 0) = (constructions = 1)
    /\ \A i \in 1..Len(calls) : calls[i].client = cached /\ cached # 0
    /\ \A r \in Reqs : sheets[r] # 0 => sheets[r] = cached

\* C6 witness: two requests have called getSheetsClient; the second got the
\* client the first constructed, and both append calls went through it.
C6_Witness ==
    /\ constructions = 1
    /\ \E r, q \in Reqs :
          /\ r < q
          /\ sheets[r] = cached /\ sheets[q] = cached
          /\ CallsOf(r) # {} /\ CallsOf(q) # {}

\* C7 (as claimed): every request that passes validation issues exactly one
\* remote append call.
C7_ExactlyOneAppendPerValidated ==
    \A r \in Reqs :
        (pc[r] # "idle" /\ ~MissingField(body[r])) => Cardinality(CallsOf(r)) = 1

\* C7 (amended): a validated request whose appendRow obtained the client
\* issues exactly one append call (insert rows, user entered) and never
\* another, whatever the call's outcome; one whose construction of the client
\* threw issues none; so the calls are as many as the requests that obtained
\* the client.
C7_OneAppendPerClientObtained ==
    /\ \A r \in Reqs :
          Cardinality(CallsOf(r)) = (IF sheets[r] # 0 THEN 1 ELSE 0)
    /\ \A r \in Reqs :
          (pc[r] # "idle" /\ ~MissingField(body[r]) /\ sheets[r] = 0) =>
              rejected[r] # NoThrow
    /\ \A r \in Reqs : rejected[r] # NoThrow => sheets[r] = 0
    /\ \A i \in 1..Len(calls) :
          /\ calls[i].insertDataOption = "INSERT_ROWS"
          /\ calls[i].valueInputOption = "USER_ENTERED"
          /\ Len(calls[i].values) = 1
    /\ Len(calls) = Cardinality({r \in Reqs : sheets[r] # 0})

\* C7 witness: one request's call has failed, another's has succeeded, and
\* each still has its one call.
C7_Witness ==
    \E r, q \in Reqs :
        /\ \E i \in CallsOf(r) : calls[i].status = "failed"
        /\ \E i \in CallsOf(q) : calls[i].status = "ok"
        /\ Ended(r) /\ Ended(q)
        /\ Len(calls) = 2

\* C8 (as claimed): the records of two different requests written to the
\* sheet have different ids.
C8_IdsUnique ==
    \A i, j \in 1..Len(calls) :
        (i # j /\ calls[i].status = "ok" /\ calls[j].status = "ok") =>
            Get(calls[i].payload, "id") # Get(calls[j].payload, "id")

\* C9: while the append call of a request is pending, the next request to
\* arrive is handled at once, be it invalid (400) or valid (its own append
\* issued), and every pending call may return or throw next: nothing orders
\* the calls of different requests.
C9_PendingAppendBlocksNoOther ==
    (\E a \in Reqs : pc[a] = "awaiting" /\ PendingOf(a) # {}) =>
        /\ \A b \in Reqs :
              (pc[b] = "idle" /\ \A q \in Reqs : q < b => pc[q] # "idle") =>
                  /\ ENABLED (\E bd \in Bodies : PostInvalid(b, bd))
                  /\ ENABLED (\E bd \in Bodies : PostValid(b, bd, now, NoThrow))
        /\ \A b \in Reqs :
              (pc[b] = "awaiting" /\ PendingOf(b) # {}) =>
                  /\ ENABLED AppendResolves(b)
                  /\ ENABLED (\E e \in Thrown : AppendRejects(b, e))
        /\ \A b \in Reqs :
              (pc[b] = "awaiting" /\ rejected[b] # NoThrow) =>
                  ENABLED AppendRowRejected(b)

\* C9 witness: the request that arrived second has its 201 while the call of
\* the first is still pending.
C9_Witness ==
    \E a, b \in Reqs :
        /\ a < b
        /\ pc[a] = "awaiting" /\ \E i \in CallsOf(a) : calls[i].status = "pending"
        /\ pc[b] = "done" /\ responses[b][1].status = 201

\* C10 (as claimed): a request whose handler has run to its end has exactly
\* one response: 400 iff validation failed, 201 iff the append succeeded,
\* 500 iff the append or the construction of the client threw.
C10_ExactlyOneResponse ==
    \A r \in Reqs :
        /\ Len(responses[r]) <= 1
        /\ Ended(r) =>
              /\ Len(responses[r]) = 1
              /\ responses[r][1].status \in {400, 201, 500}
              /\ (responses[r][1].status = 400) = MissingField(body[r])
              /\ (responses[r][1].status = 201) =
                    (~MissingField(body[r]) /\ caught[r] = NoThrow)
              /\ (responses[r][1].status = 500) =
                    (~MissingField(body[r]) /\ caught[r] # NoThrow)

=============================================================================
